---- MODULE Spec2Model ----
(***************************************************************************)
(* Survey.py: a Streamlit script over one SQLite file.                     *)
(*                                                                         *)
(* The store is the four tables admins, surveys, questions, responses.     *)
(* Every browser session runs the script in its own thread, so the         *)
(* handlers of two sessions interleave at the points where the script      *)
(* touches the store; every insert_* commits on its own.  A handler run    *)
(* is therefore modelled as its reads (one step), then one step per        *)
(* committed insert, then the step that renders the final message.  The    *)
(* process may stop at any point (Stop): the store keeps what was          *)
(* committed, the sessions and their running handlers are gone.            *)
(*                                                                         *)
(* Text is a sequence of one-character strings, so that str.strip and      *)
(* str.split are computed and not assumed.  The columns created_at and     *)
(* submitted_at are not modelled; fetch_responses is the set of joined     *)
(* rows (its ORDER BY submitted_at is not observable here).                *)
(***************************************************************************)
EXTENDS Integers, Sequences, FiniteSets, TLC

\* ------------------------------------------------------------------ bounds
MaxSurveys == 2
MaxQCount == 2
MaxResponses == 2
NumSessions == 2

Sessions == 1..NumSessions

\* ------------------------------------------------------------------- text
SP == " "

RECURSIVE lstrip(_)
lstrip(s) ==
    IF s # <<>> /\ Head(s) = SP THEN lstrip(Tail(s)) ELSE s

RECURSIVE rstrip(_)
rstrip(s) ==
    IF s # <<>> /\ s[Len(s)] = SP THEN rstrip(SubSeq(s, 1, Len(s) - 1)) ELSE s

\* str.strip()
strip(s) == rstrip(lstrip(s))

\* str.split(",")
RECURSIVE split(_)
split(s) ==
    IF \E i \in 1..Len(s) : s[i] = ","
    THEN LET i == CHOOSE k \in 1..Len(s) :
                      s[k] = "," /\ \A j \in 1..(k - 1) : s[j] # ","
         IN  <<SubSeq(s, 1, i - 1)>> \o split(SubSeq(s, i + 1, Len(s)))
    ELSE <<s>>

Digit(n) == <<"0", "1", "2", "3", "4", "5", "6", "7", "8", "9">>[n + 1]

RECURSIVE str_int(_)
str_int(n) ==
    IF n < 10 THEN <<Digit(n)>> ELSE str_int(n \div 10) \o <<Digit(n % 10)>>

\* A widget value is a Python str or int.
StrVal(s) == [py |-> "str", v |-> s]
IntVal(n) == [py |-> "int", v |-> n]

\* str(ans)
str(a) == IF a.py = "int" THEN str_int(a.v) ELSE a.v


\* ------------------------------------------------------------------ store
\* admins, surveys, questions, responses: the rows of the four tables.
\* sess[s]: st.session_state of session s (role, admin_logged_in).
\* run[s]:  the script run of session s (see Idle below).
\* proc:    whether the process is up and, while it is down, the submissions
\*          its stop cut between two inserts.
VARIABLES admins, surveys, questions, responses, sess, run, proc

store == <<admins, surveys, questions, responses>>
vars == <<admins, surveys, questions, responses, sess, run, proc>>

SeedAdmin == [username |-> "admin", password |-> "admin123"]

\* CREATE TABLE IF NOT EXISTS ...; the default admin is inserted when the
\* admins table is empty.
init_db(adm) == IF Cardinality(adm) = 0 THEN adm \cup {SeedAdmin} ELSE adm

\* ORDER BY id ASC / ORDER BY id DESC
RECURSIVE OrderByIdAsc(_)
OrderByIdAsc(rows) ==
    IF rows = {} THEN <<>>
    ELSE LET m == CHOOSE r \in rows : \A t \in rows : r.id <= t.id
         IN  <<m>> \o OrderByIdAsc(rows \ {m})

RECURSIVE OrderByIdDesc(_)
OrderByIdDesc(rows) ==
    IF rows = {} THEN <<>>
    ELSE LET m == CHOOSE r \in rows : \A t \in rows : r.id >= t.id
         IN  <<m>> \o OrderByIdDesc(rows \ {m})

\* INTEGER PRIMARY KEY AUTOINCREMENT: one more than the largest id handed out
\* (no row is ever deleted).
lastrowid(rows) ==
    IF rows = {} THEN 1
    ELSE (CHOOSE n \in {r.id : r \in rows} : \A r \in rows : r.id <= n) + 1

\* (variant) ORDER BY id ASC
fetch_surveys_asc(svs) == OrderByIdAsc(svs)

fetch_surveys(svs) == OrderByIdDesc(svs)

\* (variant) no WHERE survey_id = ?
fetch_questions_all(qs, survey_id) == OrderByIdAsc(qs)

fetch_questions(qs, survey_id) ==
    OrderByIdAsc({q \in qs : q.survey_id = survey_id})

insert_survey(svs, title, description) ==
    svs \cup {[id |-> lastrowid(svs), title |-> title,
               description |-> description]}

insert_question(qs, survey_id, question_text, qtype, options) ==
    qs \cup {[id |-> lastrowid(qs), survey_id |-> survey_id,
              question_text |-> question_text, qtype |-> qtype,
              options |-> options]}

\* (variant) survey_id and question_id bound in the wrong order
insert_response_swapped(rs, survey_id, question_id, respondent_name, answer) ==
    rs \cup {[id |-> lastrowid(rs), survey_id |-> question_id,
              question_id |-> survey_id,
              respondent_name |-> respondent_name, answer |-> str(answer)]}

insert_response(rs, survey_id, question_id, respondent_name, answer) ==
    rs \cup {[id |-> lastrowid(rs), survey_id |-> survey_id,
              question_id |-> question_id,
              respondent_name |-> respondent_name, answer |-> str(answer)]}

\* (variant) WHERE username = ? only
admin_login_user(adm, username, password) ==
    \E a \in adm : a.username = username

admin_login(adm, username, password) ==
    \E a \in adm : a.username = username /\ a.password = password

\* responses r JOIN questions q ON q.id = r.question_id WHERE r.survey_id = ?
fetch_responses(rs, qs, survey_id) ==
    {[id |-> r.id, respondent_name |-> r.respondent_name,
      answer |-> r.answer, question_text |-> q.question_text,
      qtype |-> q.qtype] :
        <<r, q>> \in {p \in rs \X qs :
                         p[2].id = p[1].question_id /\ p[1].survey_id = survey_id}}

\* (variant) the loop's inserts in one transaction: a stop rolls back the
\* rows of the submissions still in their loop
AfterStop_tx(rs, runs) ==
    {r \in rs : \A s \in DOMAIN runs :
        (runs[s].kind = "submit" /\ runs[s].i < Len(runs[s].data)) =>
            \A k \in 1..Len(runs[s].rowids) : r.id # runs[s].rowids[k]}

\* What the store holds after the process stopped: every insert was
\* committed when it was made (conn.commit() in insert_response).
AfterStop(rs, runs) == rs

\* ----------------------------------------------------------------- inputs
TitleInputs == {<<SP>>, <<SP, "a">>, <<"b">>}
DescInputs == {<<"d", SP>>}
NameInputs == {<<SP, "n", SP>>}
AnswerInputs == {<<SP>>, <<SP, "a">>}
UserInputs == {"admin", "Admin"}
PassInputs == {"admin123", "admin"}

\* st.slider("Rate (1-5)", 1, 5, 3): the value an untouched slider hands over
slider_default == 3
RatingInputs == {slider_default}

\* One question slot of the Create Survey tab: (q_text, q_type, q_opts);
\* q_opts is "" unless the type is mcq.
Slot(text, type, opts) == [q_text |-> text, q_type |-> type, q_opts |-> opts]
Blank == Slot(<<SP>>, "text", <<>>)
QText == Slot(<<"q">>, "text", <<>>)
QRating == Slot(<<"q", SP>>, "rating", <<>>)
RMcq == Slot(<<"r">>, "mcq", <<SP, ",", "x">>)

\* st.number_input("How many questions?", min_value=1, max_value=20)
min_q_count == 1
max_q_count == 20
QCounts == min_q_count..(IF MaxQCount < max_q_count THEN MaxQCount ELSE max_q_count)

\* The batches an admin submits: question_data, one slot per counted question.
QuestionData ==
    {b \in { <<Blank>>, <<Blank, QText>>, <<QText, QRating>>, <<RMcq, QText>>,
             <<QText, Blank, QRating>>, <<RMcq, QText, QText>>,
             <<QText, Blank, QRating, RMcq>> } : Len(b) \in QCounts}

\* ------------------------------------------------------------- the script
Range(f) == {f[i] : i \in DOMAIN f}

\* run[s]: where the script run of session s stands.  kind is "idle" (no run),
\* "create" / "submit" (inside the insert loop, i entries done), or the
\* message the run has just rendered and that ends it.
Idle == [kind |-> "idle", sid |-> 0, name |-> <<>>, data |-> <<>>, i |-> 0,
         rowids |-> <<>>, qids |-> <<>>, view |-> <<>>]

Messages == {"ErrTitle", "ErrAnswers", "ErrCredentials", "Responses",
             "Analytics"}

Msg(kind) == [Idle EXCEPT !.kind = kind]

NewSession == [role |-> "User", admin_logged_in |-> FALSE]

\* (variant) .iloc[-1]
chosen_id_last(df, title) ==
    df[CHOOSE k \in 1..Len(df) :
           df[k].title = title /\ \A j \in (k + 1)..Len(df) : df[j].title # title].id

\* surveys_df.loc[surveys_df["title"] == chosen_title, "id"].iloc[0]
chosen_id(df, title) ==
    df[CHOOSE k \in 1..Len(df) :
           df[k].title = title /\ \A j \in 1..(k - 1) : df[j].title # title].id

\* opts = [o.strip() for o in options.split(",") if o.strip()], or the two
\* stand-in options when that list is empty
mcq_opts(options) ==
    LET parts == split(strip(options))
        opts == SelectSeq([k \in 1..Len(parts) |-> strip(parts[k])],
                          LAMBDA o : o # <<>>)
    IN  IF opts = <<>>
        THEN << <<"O", "p", "t", "i", "o", "n", SP, "1">>,
                <<"O", "p", "t", "i", "o", "n", SP, "2">> >>
        ELSE opts

\* The values the widget of question q can hand to the form.
Widget(q) ==
    CASE q.qtype = "text" -> {StrVal(a) : a \in AnswerInputs}
      [] q.qtype = "mcq" -> {StrVal(o) : o \in Range(mcq_opts(q.options))}
      [] q.qtype = "rating" -> {IntVal(n) : n \in RatingInputs}
      [] OTHER -> {StrVal(a) : a \in AnswerInputs}

\* answers: one entry per row of qdf, in qdf's order
Answers(qdf) ==
    {a \in [1..Len(qdf) -> UNION {Widget(qdf[k]) : k \in 1..Len(qdf)}] :
        \A k \in 1..Len(qdf) : a[k] \in Widget(qdf[k])}

\* (variant) str(ans) == "" without the strip
empty_text_nostrip(qdf, answers) ==
    {qdf[k].id : k \in {j \in 1..Len(qdf) : str(answers[j]) = <<>>}}

\* empty_text = [qid for qid, ans in answers.items()
\*               if ans is None or str(ans).strip() == ""]
empty_text(qdf, answers) ==
    {qdf[k].id : k \in {j \in 1..Len(qdf) : strip(str(answers[j])) = <<>>}}

\* (variant) text and type must both match
analysis_sub_typed(rdf, q) ==
    {r \in rdf : r.question_text = q.question_text /\ r.qtype = q.qtype}

\* rdf[rdf["question_text"] == qtext]
analysis_sub(rdf, q) == {r \in rdf : r.question_text = q.question_text}

RECURSIVE Pending(_, _)
Pending(runs, ss) ==
    IF ss = {} THEN 0
    ELSE LET s == CHOOSE x \in ss : TRUE
         IN  (IF runs[s].kind = "submit" THEN Len(runs[s].data) - runs[s].i ELSE 0)
             + Pending(runs, ss \ {s})

Up == [up |-> TRUE, cut |-> {}]

Init ==
    /\ admins = init_db({})
    /\ surveys = {}
    /\ questions = {}
    /\ responses = {}
    /\ sess = [s \in Sessions |-> NewSession]
    /\ run = [s \in Sessions |-> Idle]
    /\ proc = Up

\* A run that has rendered its last message (the loop's st.success, an
\* st.error, a view) has nothing left to do on the store; it ends before any
\* other step is taken (ending it commutes with every step of the others).
Final(r) ==
    \/ r.kind \in Messages
    \/ r.kind \in {"create", "submit"} /\ r.i = Len(r.data)

Running == proc.up /\ \A s \in Sessions : ~Final(run[s])

\* A user action of session s starts a script run: the process is up and
\* the session's previous run is over.
Ready(s) == Running /\ run[s].kind = "idle"

\* (variant) the admin view shown to anyone in Admin mode
AdminGate_roleOnly(s) == sess[s].role = "Admin"

\* The tabs of the admin view are rendered in the else branch of
\* 'if st.session_state.role == "User"', under
\* 'if not st.session_state.admin_logged_in: ... else:'.
AdminGate(s) == sess[s].role = "Admin" /\ sess[s].admin_logged_in

\* st.session_state.role = st.radio("Select Mode", ["User", "Admin"])
SwitchRole(s, r) ==
    /\ Ready(s)
    /\ sess[s].role # r
    /\ admins' = init_db(admins)
    /\ sess' = [sess EXCEPT ![s].role = r]
    /\ UNCHANGED <<surveys, questions, responses, run, proc>>

\* Admin mode, not logged in: the Login button
Login(s, username, password) ==
    /\ Ready(s)
    /\ sess[s].role = "Admin"
    /\ ~sess[s].admin_logged_in
    /\ admins' = init_db(admins)
    /\ IF admin_login(admins', username, password)
       THEN /\ sess' = [sess EXCEPT ![s].admin_logged_in = TRUE]
            /\ run' = run
       ELSE /\ sess' = sess
            /\ run' = [run EXCEPT ![s] = Msg("ErrCredentials")]
    /\ UNCHANGED <<surveys, questions, responses, proc>>

\* Admin mode, logged in: the Logout button
Logout(s) ==
    /\ Ready(s)
    /\ AdminGate(s)
    /\ admins' = init_db(admins)
    /\ sess' = [sess EXCEPT ![s].admin_logged_in = FALSE]
    /\ UNCHANGED <<surveys, questions, responses, run, proc>>

\* (variant) no "if q_text.strip():"
skip_blank_none(question_data, i) == i

\* The loop "for q_text, q_type, q_opts in question_data" passes over the
\* slots whose text is blank ("if q_text.strip():") without touching the
\* store: the position of the next slot it inserts, from position i on.
RECURSIVE skip_blank(_, _)
skip_blank(question_data, i) ==
    IF i < Len(question_data) /\ strip(question_data[i + 1].q_text) = <<>>
    THEN skip_blank(question_data, i + 1)
    ELSE i

\* Create Survey tab: the "Create Survey" button, up to insert_survey
CreateStart(s, title, desc, question_data) ==
    /\ Ready(s)
    /\ AdminGate(s)
    /\ admins' = init_db(admins)
    /\ IF strip(title) = <<>>
       THEN /\ run' = [run EXCEPT ![s] = [Msg("ErrTitle") EXCEPT !.name = title]]
            /\ surveys' = surveys
       ELSE /\ Cardinality(surveys) < MaxSurveys
            /\ surveys' = insert_survey(surveys, strip(title), strip(desc))
            /\ run' = [run EXCEPT ![s] =
                          [Idle EXCEPT !.kind = "create",
                                       !.sid = lastrowid(surveys),
                                       !.data = question_data,
                                       !.i = skip_blank(question_data, 0)]]
    /\ UNCHANGED <<questions, responses, sess, proc>>

\* one insert_question of the loop, and the blank slots that follow it
CreateStep(s) ==
    /\ Running
    /\ run[s].kind = "create"
    /\ run[s].i < Len(run[s].data)
    /\ LET slot == run[s].data[run[s].i + 1]
       IN  questions' = insert_question(questions, run[s].sid,
                                        strip(slot.q_text), slot.q_type,
                                        strip(slot.q_opts))
    /\ run' = [run EXCEPT ![s].i = skip_blank(run[s].data, @ + 1)]
    /\ UNCHANGED <<admins, surveys, responses, sess, proc>>

\* User mode: the form's submit button, up to the validation
SubmitStart(s, title, respondent, answers) ==
    /\ Ready(s)
    /\ sess[s].role = "User"
    /\ admins' = init_db(admins)
    /\ LET surveys_df == fetch_surveys(surveys)
       IN  /\ surveys_df # <<>>
           /\ title \in {surveys_df[k].title : k \in 1..Len(surveys_df)}
           /\ LET cid == chosen_id(surveys_df, title)
                  qdf == fetch_questions(questions, cid)
              IN  /\ qdf # <<>>
                  /\ answers \in Answers(qdf)
                  /\ IF empty_text(qdf, answers) # {}
                     THEN run' = [run EXCEPT ![s] =
                              [Msg("ErrAnswers") EXCEPT !.sid = cid,
                                                        !.data = answers]]
                     ELSE /\ Cardinality(responses) + Pending(run, Sessions)
                                + Len(qdf) <= MaxResponses
                          /\ run' = [run EXCEPT ![s] =
                                 [Idle EXCEPT
                                    !.kind = "submit",
                                    !.sid = cid,
                                    !.name = respondent,
                                    !.qids = [k \in 1..Len(qdf) |-> qdf[k].id],
                                    !.data = [k \in 1..Len(qdf) |->
                                                 [qid |-> qdf[k].id,
                                                  ans |-> answers[k]]]]]
    /\ UNCHANGED <<surveys, questions, responses, sess, proc>>

\* one iteration of "for qid, ans in answers.items()"
InsertStep(s) ==
    /\ Running
    /\ run[s].kind = "submit"
    /\ run[s].i < Len(run[s].data)
    /\ LET e == run[s].data[run[s].i + 1]
       IN  responses' = insert_response(responses, run[s].sid, e.qid,
                                        strip(run[s].name), e.ans)
    /\ run' = [run EXCEPT ![s].i = @ + 1,
                          ![s].rowids = Append(@, lastrowid(responses))]
    /\ UNCHANGED <<admins, surveys, questions, sess, proc>>

\* View Responses tab
ViewResponses(s, title) ==
    /\ Ready(s)
    /\ AdminGate(s)
    /\ admins' = init_db(admins)
    /\ LET surveys_df == fetch_surveys(surveys)
       IN  /\ surveys_df # <<>>
           /\ title \in {surveys_df[k].title : k \in 1..Len(surveys_df)}
           /\ LET sid == chosen_id(surveys_df, title)
                  rdf == fetch_responses(responses, questions, sid)
              IN  run' = [run EXCEPT ![s] =
                    IF rdf = {}
                    THEN Idle
                    ELSE [Idle EXCEPT !.kind = "Responses", !.sid = sid,
                                      !.name = title,
                                      !.view = {r.id : r \in rdf}]]
    /\ UNCHANGED <<surveys, questions, responses, sess, proc>>

\* Analytics tab
Analytics(s, title) ==
    /\ Ready(s)
    /\ AdminGate(s)
    /\ admins' = init_db(admins)
    /\ LET surveys_df == fetch_surveys(surveys)
       IN  /\ surveys_df # <<>>
           /\ title \in {surveys_df[k].title : k \in 1..Len(surveys_df)}
           /\ LET sid == chosen_id(surveys_df, title)
                  qdf == fetch_questions(questions, sid)
                  rdf == fetch_responses(responses, questions, sid)
              IN  run' = [run EXCEPT ![s] =
                    IF rdf = {}
                    THEN Idle
                    ELSE [Idle EXCEPT
                            !.kind = "Analytics", !.sid = sid, !.name = title,
                            !.view = [k \in 1..Len(qdf) |->
                                        [qid |-> qdf[k].id,
                                         rows |-> {r.id : r \in
                                                    analysis_sub(rdf, qdf[k])}]]]]
    /\ UNCHANGED <<surveys, questions, responses, sess, proc>>

\* The script run ends: after the loop's st.success, or after the message
\* or view it rendered.
EndRun(s) ==
    /\ proc.up
    /\ Final(run[s])
    /\ run' = [run EXCEPT ![s] = Idle]
    /\ UNCHANGED <<admins, surveys, questions, responses, sess, proc>>

\* The submissions a stop of the process cuts between two of their inserts.
Cut(runs) ==
    {[rowids |-> runs[s].rowids, of |-> Len(runs[s].data)] :
        s \in {x \in Sessions : /\ runs[x].kind = "submit"
                                /\ runs[x].i > 0
                                /\ runs[x].i < Len(runs[x].data)}}

\* The process stops: the store file stays, session state and the running
\* handlers are gone.
Stop ==
    /\ Running
    /\ responses' = AfterStop(responses, run)
    /\ sess' = [s \in Sessions |-> NewSession]
    /\ run' = [s \in Sessions |-> Idle]
    /\ proc' = [up |-> FALSE, cut |-> Cut(run)]
    /\ UNCHANGED <<admins, surveys, questions>>

\* The process starts again: init_db() runs at the top of the script.
Start ==
    /\ ~proc.up
    /\ admins' = init_db(admins)
    /\ proc' = Up
    /\ UNCHANGED <<surveys, questions, responses, sess, run>>

Next ==
    \/ \E s \in Sessions, r \in {"User", "Admin"} : SwitchRole(s, r)
    \/ \E s \in Sessions, u \in UserInputs, p \in PassInputs : Login(s, u, p)
    \/ \E s \in Sessions : Logout(s)
    \/ \E s \in Sessions, title \in TitleInputs, desc \in DescInputs,
          qd \in QuestionData : CreateStart(s, title, desc, qd)
    \/ \E s \in Sessions : CreateStep(s)
    \/ \E s \in Sessions, title \in TitleInputs, name \in NameInputs,
          answers \in UNION {Answers(fetch_questions(questions, sv.id)) :
                                sv \in surveys} :
             SubmitStart(s, title, name, answers)
    \/ \E s \in Sessions : InsertStep(s)
    \/ \E s \in Sessions, title \in TitleInputs : ViewResponses(s, title)
    \/ \E s \in Sessions, title \in TitleInputs : Analytics(s, title)
    \/ \E s \in Sessions : EndRun(s)
    \/ Stop
    \/ Start

Spec == Init /\ [][Next]_vars

\* ----------------------------------------------------------------- claims
RowsOf(r) == {x \in responses : x.id \in Range(r.rowids)}

\* C1: when the insert loop of a submission whose answers were all non-empty
\* is over, the submission has added exactly one response row per question of
\* the survey (the questions fetch_questions returned to this run): as many
\* rows as questions, one for each question id, none for anything else, each
\* with the chosen survey id and the trimmed respondent name.
C1_OneRowPerQuestion ==
    \A s \in Sessions :
        (run[s].kind = "submit" /\ run[s].i = Len(run[s].data)) =>
            LET r == run[s]
                rows == RowsOf(r)
            IN  /\ Len(r.rowids) = Len(r.qids)
                /\ Cardinality(rows) = Len(r.qids)
                /\ \A k \in 1..Len(r.qids) :
                      /\ Cardinality({x \in rows : x.question_id = r.qids[k]}) = 1
                      /\ \E q \in questions :
                            q.id = r.qids[k] /\ q.survey_id = r.sid
                /\ \A k, j \in 1..Len(r.qids) : r.qids[k] = r.qids[j] => k = j
                /\ \A x \in rows :
                      /\ x.survey_id = r.sid
                      /\ x.question_id \in Range(r.qids)
                      /\ x.respondent_name = strip(r.name)
                      /\ strip(x.answer) # <<>>

C1_Witness ==
    \E s \in Sessions :
        /\ run[s].kind = "submit"
        /\ run[s].i = Len(run[s].data)
        /\ Len(run[s].data) = 2
        /\ strip(run[s].name) # run[s].name
        /\ Cardinality(RowsOf(run[s])) = 2

AnyEmpty(answers) ==
    \E k \in DOMAIN answers : strip(str(answers[k])) = <<>>

\* C2: a submission with an answer that is empty after trimming changes no
\* response row and ends with the error (no insert is left to run); a Create
\* Survey click whose title is empty after trimming changes no survey and no
\* question row and ends with the error, whatever the other fields hold.
C2_RejectedWritesNothing ==
    [][\A s \in Sessions :
        (run[s].kind = "idle" /\ run'[s].kind # "idle") =>
          /\ \A title \in TitleInputs, name \in NameInputs,
                answers \in UNION {Answers(fetch_questions(questions, sv.id)) :
                                      sv \in surveys} :
                (AnyEmpty(answers) /\ SubmitStart(s, title, name, answers)) =>
                    /\ UNCHANGED <<surveys, questions, responses>>
                    /\ run'[s].kind = "ErrAnswers"
          /\ \A title \in TitleInputs, desc \in DescInputs, qd \in QuestionData :
                (strip(title) = <<>> /\ CreateStart(s, title, desc, qd)) =>
                    /\ UNCHANGED <<surveys, questions, responses>>
                    /\ run'[s].kind = "ErrTitle"
      ]_vars

C2_Witness ==
    \E s \in Sessions :
        /\ run[s].kind = "ErrAnswers"
        /\ Len(run[s].data) = 2
        /\ \E k, j \in 1..2 :
              /\ strip(str(run[s].data[k])) = <<>>
              /\ str(run[s].data[k]) # <<>>
              /\ strip(str(run[s].data[j])) # <<>>
        /\ responses # {}

\* C3: right after the insert_survey of a Create Survey click with a
\* non-empty title, the new survey is the first row of fetch_surveys, with
\* the trimmed title and description, whatever surveys were created before.
C3_NewSurveyFirst ==
    [][\A s \in Sessions :
        (run[s].kind = "idle" /\ run'[s].kind # "idle") =>
        \A title \in TitleInputs, desc \in DescInputs, qd \in QuestionData :
          (strip(title) # <<>> /\ CreateStart(s, title, desc, qd)) =>
              LET df == fetch_surveys(surveys')
              IN  /\ df # <<>>
                  /\ df[1].id = run'[s].sid
                  /\ df[1].title = strip(title)
                  /\ df[1].description = strip(desc)
                  /\ \A sv \in surveys : sv \in surveys' /\ sv.id < df[1].id
      ]_vars

C3_Witness ==
    \E s \in Sessions :
        /\ run[s].kind = "create"
        /\ Cardinality(surveys) = 2
        /\ fetch_surveys(surveys)[1].id = run[s].sid
        /\ fetch_surveys(surveys)[2].title = fetch_surveys(surveys)[1].title

NonBlank(question_data) ==
    SelectSeq(question_data, LAMBDA slot : strip(slot.q_text) # <<>>)

\* C4: when the loop of a Create Survey run is over, fetch_questions of the
\* new survey returns exactly the slots of the batch whose text is non-empty
\* after trimming, in the batch's order (trimmed text, type, trimmed options);
\* the blank slots are left out and the run went on.
C4_NonBlankInOrder ==
    \A s \in Sessions :
        (run[s].kind = "create" /\ run[s].i = Len(run[s].data)) =>
            LET qdf == fetch_questions(questions, run[s].sid)
                kept == NonBlank(run[s].data)
            IN  /\ Len(qdf) = Len(kept)
                /\ \A k \in 1..Len(qdf) :
                      /\ qdf[k].question_text = strip(kept[k].q_text)
                      /\ qdf[k].qtype = kept[k].q_type
                      /\ qdf[k].options = strip(kept[k].q_opts)
                      /\ qdf[k].survey_id = run[s].sid

C4_Witness ==
    \E s \in Sessions :
        /\ run[s].kind = "create"
        /\ run[s].i = Len(run[s].data)
        /\ Len(NonBlank(run[s].data)) < Len(run[s].data)
        /\ Len(fetch_questions(questions, run[s].sid)) >= 1

\* C5: in every state (init_db has run once or more, any UI operations
\* have happened) the admins table is exactly the seed row, and admin_login
\* answers true for ("admin", "admin123") and false for every other pair.
C5_OnlySeedLogsIn ==
    /\ admins = {[username |-> "admin", password |-> "admin123"]}
    /\ \A u \in UserInputs \cup {"", "admin "},
          p \in PassInputs \cup {"", "Admin123"} :
          admin_login(admins, u, p) <=> (u = "admin" /\ p = "admin123")
    /\ \A s \in Sessions :
          run[s].kind = "ErrCredentials" => ~sess[s].admin_logged_in

C5_Witness ==
    /\ \E s \in Sessions : sess[s].admin_logged_in
    /\ \E s \in Sessions : run[s].kind = "ErrCredentials"
    /\ surveys # {}

\* C6: every question row names an existing survey; every response row names
\* an existing survey and an existing question of that same survey.
C6_References ==
    /\ \A q \in questions : \E sv \in surveys : sv.id = q.survey_id
    /\ \A r \in responses :
          /\ \E sv \in surveys : sv.id = r.survey_id
          /\ \E q \in questions :
                q.id = r.question_id /\ q.survey_id = r.survey_id

C6_Witness ==
    /\ Cardinality(surveys) = 2
    /\ \A sv \in surveys : \E q \in questions : q.survey_id = sv.id
    /\ \A sv \in surveys : \E r \in responses : r.survey_id = sv.id
    /\ \E s, t \in Sessions :
          s # t /\ run[s].kind = "submit" /\ run[t].kind = "create"

\* C7: every insert_response is committed by itself: the step adds its one
\* row to the store at once, no later step (a stop of the process, a restart)
\* removes or alters a stored row, and when the process stops between two
\* inserts of a submission the rows inserted so far are what the store holds
\* of it.
C7_NoRollback ==
    [][/\ \A r \in responses : r \in responses'
       /\ \A s \in Sessions :
             (run[s].kind = "submit" /\ run'[s].kind = "submit"
                 /\ run'[s].i = run[s].i + 1) =>
                 Cardinality(responses') = Cardinality(responses) + 1
       /\ (proc.up /\ ~proc'.up) =>
             /\ responses' = responses
             /\ \A c \in proc'.cut :
                   \A k \in 1..Len(c.rowids) :
                      \E r \in responses' : r.id = c.rowids[k]
      ]_vars

C7_Witness ==
    /\ ~proc.up
    /\ \E c \in proc.cut :
          /\ Len(c.rowids) >= 1
          /\ Len(c.rowids) < c.of
          /\ \A k \in 1..Len(c.rowids) :
                \E r \in responses : r.id = c.rowids[k]

\* The questions of survey sid that carry the same text as question qid.
SameText(sid, qid) ==
    {q2.id : q2 \in {q \in questions :
                        /\ q.survey_id = sid
                        /\ \E q1 \in questions :
                              q1.id = qid /\ q1.question_text = q.question_text}}

\* C8: the response set the analytics view shows for a question is the
\* responses of the survey to any question of the survey with the same text:
\* two questions with identical text are each analysed over the union of the
\* responses to both.
C8_AnalysedByText ==
    \A s \in Sessions :
        run[s].kind = "Analytics" =>
            LET qdf == fetch_questions(questions, run[s].sid)
            IN  /\ Len(run[s].view) = Len(qdf)
                /\ \A k \in 1..Len(qdf) :
                      /\ run[s].view[k].qid = qdf[k].id
                      /\ run[s].view[k].rows =
                            {r.id : r \in {x \in responses :
                                /\ x.survey_id = run[s].sid
                                /\ x.question_id \in
                                      SameText(run[s].sid, qdf[k].id)}}

C8_Witness ==
    \E s \in Sessions :
        /\ run[s].kind = "Analytics"
        /\ \E k, j \in 1..Len(run[s].view) :
              /\ k # j
              /\ run[s].view[k].rows = run[s].view[j].rows
              /\ \E r1, r2 \in responses :
                    /\ r1.question_id = run[s].view[k].qid
                    /\ r2.question_id = run[s].view[j].qid
                    /\ {r1.id, r2.id} \subseteq run[s].view[k].rows

\* C9: within a session, admin_logged_in starts false; it becomes true only
\* in a Login step whose admin_login check succeeded and false only in a
\* Logout step (a stop of the process ends the session: the next one starts
\* logged out); switching role and a failed login leave it unchanged; and
\* a step that writes a survey or question row is a step of a session whose
\* role is Admin and whose admin_logged_in is true.
C9_AdminOnly ==
    /\ \A s \in Sessions : ~sess[s].admin_logged_in
    /\ [][/\ (surveys' # surveys \/ questions' # questions) =>
                \E s \in Sessions :
                   /\ run'[s] # run[s]
                   /\ \A t \in Sessions \ {s} : run'[t] = run[t]
                   /\ sess[s].role = "Admin"
                   /\ sess[s].admin_logged_in
                   /\ sess' = sess
          /\ \A s \in Sessions :
                /\ (~sess[s].admin_logged_in /\ sess'[s].admin_logged_in) =>
                      \E u \in UserInputs, p \in PassInputs :
                         /\ Login(s, u, p)
                         /\ u = "admin"
                         /\ p = "admin123"
                /\ (sess[s].admin_logged_in /\ ~sess'[s].admin_logged_in) =>
                      Logout(s) \/ Stop
                /\ (sess'[s].role # sess[s].role /\ proc'.up) =>
                      sess'[s].admin_logged_in = sess[s].admin_logged_in
                /\ (run[s].kind = "idle" /\ run'[s].kind = "ErrCredentials") =>
                      sess' = sess
         ]_vars

C9_Witness ==
    \E s \in Sessions :
        /\ sess[s].role = "User"
        /\ sess[s].admin_logged_in
        /\ \E t \in Sessions :
              /\ t # s
              /\ run[t].kind = "ErrCredentials"
        /\ \E q \in questions : TRUE

\* Survey sid is the one with the greatest id among those of svs with its
\* title.
Newest(svs, sid) ==
    \E sv \in svs :
        /\ sv.id = sid
        /\ \A o \in svs : o.title = sv.title => o.id <= sid

\* A run of session s picks a survey in this step.
Picks(s) ==
    /\ run[s].kind = "idle"
    /\ run'[s].kind \in {"submit", "ErrAnswers", "Responses", "Analytics"}

\* Session s inserts a response row in this step.
Inserts(s) ==
    /\ run[s].kind = "submit"
    /\ run'[s].kind = "submit"
    /\ run'[s].i = run[s].i + 1

\* C10 as stated: a title is resolved to the survey with the greatest id
\* carrying it, so a response row is only ever written to (and read from) the
\* newest survey of its title: a survey that has a newer namesake gets no
\* new response.
C10_OnlyNewestWritten ==
    [][\A s \in Sessions :
          /\ Picks(s) => Newest(surveys, run'[s].sid)
          /\ Inserts(s) =>
                /\ Newest(surveys, run[s].sid)
                /\ \A r \in responses' \ responses : r.survey_id = run[s].sid
      ]_vars

\* C10 amended: a title is resolved to the survey with the greatest id among
\* those carrying it in the listing the run fetched; the rows the run then
\* writes go to that survey and the rows a view shows are rows of that
\* survey.  (A survey created with the same title while the run is in its
\* insert loop does not redirect the rows.)
C10_NewestWhenPicked ==
    [][\A s \in Sessions :
          /\ Picks(s) =>
                /\ Newest(surveys, run'[s].sid)
                /\ run'[s].kind \in {"Responses", "Analytics"} =>
                      \E sv \in surveys :
                         sv.id = run'[s].sid /\ sv.title = strip(run'[s].name)
                /\ run'[s].kind = "Responses" =>
                      run'[s].view =
                         {r.id : r \in {x \in responses :
                                           x.survey_id = run'[s].sid}}
          /\ Inserts(s) =>
                /\ run'[s].sid = run[s].sid
                /\ \A r \in responses' \ responses : r.survey_id = run[s].sid
      ]_vars

C10_Witness ==
    \E old, new \in surveys :
        /\ old.title = new.title
        /\ old.id < new.id
        /\ \E q \in questions : q.survey_id = old.id
        /\ \A r \in responses : r.survey_id = new.id
        /\ \E s \in Sessions :
              /\ run[s].kind = "Responses"
              /\ run[s].sid = new.id
              /\ Cardinality(run[s].view) = 2

====
